---------------------------- MODULE Spec2Model ----------------------------
(***************************************************************************)
(* Model of trading_gui.py: a pika consumer thread (_receive_trades and    *)
(* its callback) hands decoded trades to the Tk event loop with            *)
(* root.after(0, ...); the event loop runs _process_trade, which appends a *)
(* row to the trades table, updates last_prices and refreshes the prices   *)
(* table; on_closing stops the consumer, closes the connection and         *)
(* destroys the window.                                                    *)
(*                                                                         *)
(* The model starts where root.mainloop() is dispatching and the listener  *)
(* thread has entered start_consuming().  Two execution contexts take      *)
(* steps: the consumer thread (consumerPc) and the UI thread (uiPc).       *)
(* A handler of the event loop runs to completion on the UI thread, so     *)
(* _process_trade is one step; on_closing makes blocking calls into pika   *)
(* while the consumer thread uses the same channel, so each of its calls   *)
(* is a step.                                                              *)
(***************************************************************************)
EXTENDS Integers, Sequences, FiniteSets, TLC

\* Number of messages the broker delivers in a run.
MaxMsgs == 2

-----------------------------------------------------------------------------
(* JSON values as json.loads returns them.  One record shape for all, so    *)
(* that values of different Python types can be compared.                   *)

JStr(s) == [t |-> "str", s |-> s, n |-> 0]
JInt(n) == [t |-> "int", s |-> "", n |-> n]
\* the float n.0
JFloat(n) == [t |-> "float", s |-> "", n |-> n]
\* a JSON array whose Tcl rendering is s; a Python list, which is unhashable
JList(s) == [t |-> "list", s |-> s, n |-> 0]

IsNum(v) == v.t \in {"int", "float"}

\* Python ==, as dict lookup uses it: 100 == 100.0, otherwise same type and value.
PyEq(a, b) == IF IsNum(a) /\ IsNum(b) THEN a.n = b.n ELSE a = b

\* hash(v) raises TypeError for a list (or a dict).
Hashable(v) == v.t # "list"

\* What a Treeview cell holds for a value: Tk stores the value's string form.
TkStr(v) ==
    CASE v.t = "str" -> v.s
      [] v.t = "int" -> ToString(v.n)
      [] v.t = "float" -> ToString(v.n) \o ".0"
      [] v.t = "list" -> v.s

Keys == {"symbol", "price", "quantity", "buyer", "seller"}

-----------------------------------------------------------------------------
(* Message bodies.  A body is its syntax class and, when it is JSON, the    *)
(* document it encodes: an object (a function from the keys present to      *)
(* their values) or something else (an array, a number, null).              *)

NoFields == [k \in {} |-> JInt(0)]

ObjBody(f) == [syntax |-> "json", kind |-> "object", fields |-> f]
BadUtf8Body == [syntax |-> "not_utf8", kind |-> "none", fields |-> NoFields]
NotJsonBody == [syntax |-> "not_json", kind |-> "none", fields |-> NoFields]
ArrayBody == [syntax |-> "json", kind |-> "array", fields |-> NoFields]

Trade(sym, price, qty, buyer, seller) ==
    [k \in Keys |-> CASE k = "symbol" -> sym
                      [] k = "price" -> price
                      [] k = "quantity" -> qty
                      [] k = "buyer" -> buyer
                      [] k = "seller" -> seller]

ObjBodies ==
    { ObjBody(NoFields),
      ObjBody(Trade(JStr("AAPL"), JInt(100), JInt(10), JStr("B1"), JStr("S1"))),
      ObjBody(Trade(JStr("AAPL"), JInt(101), JInt(3), JStr("B3"), JStr("S3"))),
      ObjBody(Trade(JStr("MSFT"), JInt(50), JInt(5), JStr("B2"), JStr("S2"))),
      ObjBody([k \in {"symbol"} |-> JStr("TSLA")]),
      ObjBody([k \in {"symbol", "price"} |->
                  IF k = "symbol" THEN JList("X") ELSE JInt(5)]),
      ObjBody([k \in {"symbol", "price"} |->
                  IF k = "symbol" THEN JStr("AAPL") ELSE JStr("abc")]) }

Bodies == ObjBodies \cup {BadUtf8Body, NotJsonBody, ArrayBody}

-----------------------------------------------------------------------------
VARIABLES
    consumerPc,   \* consumer thread: "consuming", "callback", "ack", "returned", "dead"
    cur,          \* delivery tag of the message the callback is handling (0: none)
    received,     \* bodies delivered to the callback, in order; the tag is the index
    ackLog,       \* delivery tags passed to basic_ack, in call order
    consuming,    \* the channel's consumer is registered (basic_consume, not yet stopped)
    conn,         \* the connection: "open", "closed" (by on_closing), "lost" (broker failure)
    afterQueue,   \* Tk timer queue: [tag, trade] handed to root.after(0, ...), not yet run
    trades_tree,  \* rows of the trades table (the ledger), in display order
    last_prices,  \* the dict: sequence of [key, val] in insertion order
    prices_tree,  \* rows of the last-prices table
    uiState,      \* "running", "destroyed", "exited"
    uiPc,         \* UI thread: "idle", or the call on_closing is about to make
    processed     \* history: [tag, outcome] of every _process_trade run, in order

vars == <<consumerPc, cur, received, ackLog, consuming, conn, afterQueue,
          trades_tree, last_prices, prices_tree, uiState, uiPc, processed>>

storeVars == <<trades_tree, last_prices, prices_tree, processed>>
brokerVars == <<ackLog, consuming, conn>>

\* The delivery tags acknowledged to the broker.
acked == {ackLog[i] : i \in 1..Len(ackLog)}


-----------------------------------------------------------------------------
(* Pure helpers, as the code computes them.                                 *)

\* json.loads(body.decode("utf-8")): raises on bytes that are not UTF-8 and on
\* text that is not JSON; any JSON document, object or not, is returned.
JsonLoads(body) ==
    [ok |-> body.syntax = "json",
     value |-> [kind |-> body.kind, fields |-> body.fields]]

\* Variant of HasGet: a non-dict document is read as if it had no keys.
HasGetAnything(trade) == TRUE

\* Only a dict has .get; on anything else trade.get raises AttributeError.
HasGet(trade) == trade.kind = "object"

\* trade.get(key, default)
TradeGet(trade, key, default) ==
    IF key \in DOMAIN trade.fields THEN trade.fields[key] ELSE default

\* Variant of TradeValues: the defaults of price and quantity are exchanged.
TradeValuesSwappedDefaults(trade) ==
    << TradeGet(trade, "symbol", JStr("???")),
       TradeGet(trade, "price", JInt(0)),
       TradeGet(trade, "quantity", JFloat(0)),
       TradeGet(trade, "buyer", JStr("???")),
       TradeGet(trade, "seller", JStr("???")) >>

\* The row _process_trade builds: the five fields with their defaults.
TradeValues(trade) ==
    << TradeGet(trade, "symbol", JStr("???")),
       TradeGet(trade, "price", JFloat(0)),
       TradeGet(trade, "quantity", JInt(0)),
       TradeGet(trade, "buyer", JStr("???")),
       TradeGet(trade, "seller", JStr("???")) >>

\* Variant of TreeInsertEnd: the table is emptied before the row goes in.
TreeInsertOnlyRow(rows, values) ==
    <<[i \in 1..Len(values) |-> TkStr(values[i])]>>

\* Variant of TreeInsertEnd: the row goes in at index 0 instead of tk.END.
TreeInsertFirst(rows, values) ==
    <<[i \in 1..Len(values) |-> TkStr(values[i])]>> \o rows

\* Treeview.insert("", tk.END, values=...): a new last row holding the strings.
TreeInsertEnd(rows, values) ==
    Append(rows, [i \in 1..Len(values) |-> TkStr(values[i])])

\* Position of key k in the dict d, 0 when absent.
DictIndex(d, k) ==
    IF \E i \in 1..Len(d) : PyEq(d[i].key, k)
    THEN CHOOSE i \in 1..Len(d) : PyEq(d[i].key, k)
    ELSE 0

DictHas(d, k) == DictIndex(d, k) # 0
DictGet(d, k) == d[DictIndex(d, k)].val

\* Variant of DictSetItem: self.last_prices = {k: v}, a fresh dict each time.
DictReplace(d, k, v) == <<[key |-> k, val |-> v]>>

\* Variant of DictSetItem: d.setdefault(k, v), which keeps an existing entry.
DictSetDefault(d, k, v) ==
    IF DictHas(d, k) THEN d ELSE Append(d, [key |-> k, val |-> v])

\* d[k] = v: overwrite in place, or a new last entry.
DictSetItem(d, k, v) ==
    IF DictHas(d, k)
    THEN [d EXCEPT ![DictIndex(d, k)].val = v]
    ELSE Append(d, [key |-> k, val |-> v])

\* Variant of RefreshPricesTree: the delete loop is missing.
RefreshKeepsRows(trades, prices, lp) ==
    [trades_tree |-> trades,
     prices_tree |-> prices \o [i \in 1..Len(lp) |-> <<TkStr(lp[i].key), TkStr(lp[i].val)>>]]

\* Variant of RefreshPricesTree: the delete loop runs over trades_tree.
RefreshClearsTrades(trades, prices, lp) ==
    [trades_tree |-> <<>>,
     prices_tree |-> prices \o [i \in 1..Len(lp) |-> <<TkStr(lp[i].key), TkStr(lp[i].val)>>]]

\* _refresh_prices_tree: delete every row of prices_tree, then insert one row
\* per item of last_prices.  Returns both tables as the method leaves them.
RefreshPricesTree(trades, prices, lp) ==
    [trades_tree |-> trades,
     prices_tree |-> [i \in 1..Len(lp) |-> <<TkStr(lp[i].key), TkStr(lp[i].val)>>]]

\* Variant of After: the newest callback runs first.
AfterNewestFirst(queue, item) == <<item>> \o queue

\* root.after(0, func, trade): Tk keeps timers due at the same time in the
\* order they were created.
After(queue, item) == Append(queue, item)

\* _process_trade(trade), lines 186-200, on the store (tt, lp, pt): what it
\* leaves behind and how it ended.
\*   "raised"  - trade.get raised AttributeError at line 186; nothing was done
\*   "partial" - the row was inserted, then last_prices[symbol] = price raised
\*               TypeError (unhashable symbol) at line 199
\*   "applied" - ran to the end
ProcessTradeEffect(trade, tt, lp, pt) ==
    IF ~HasGet(trade)
    THEN [trades_tree |-> tt, last_prices |-> lp, prices_tree |-> pt, outcome |-> "raised"]
    ELSE LET values == TradeValues(trade)
             symbol == values[1]
             price == values[2]
             rows == TreeInsertEnd(tt, values)
         IN  IF ~Hashable(symbol)
             THEN [trades_tree |-> rows, last_prices |-> lp, prices_tree |-> pt,
                   outcome |-> "partial"]
             ELSE LET newlp == DictSetItem(lp, symbol, price)
                      shown == RefreshPricesTree(rows, pt, newlp)
                  IN  [trades_tree |-> shown.trades_tree, last_prices |-> newlp,
                       prices_tree |-> shown.prices_tree, outcome |-> "applied"]

-----------------------------------------------------------------------------
Init ==
    /\ consumerPc = "consuming"
    /\ cur = 0
    /\ received = <<>>
    /\ ackLog = <<>>
    /\ consuming = TRUE
    /\ conn = "open"
    /\ afterQueue = <<>>
    /\ trades_tree = <<>>
    /\ last_prices = <<>>
    /\ prices_tree = <<>>
    /\ uiState = "running"
    /\ uiPc = "idle"
    /\ processed = <<>>

\* The process is alive: the daemon consumer thread runs until the main thread
\* leaves root.mainloop() and the interpreter exits.
Alive == uiState # "exited"

(* ---------------- consumer thread: _receive_trades ---------------------- *)

\* start_consuming() dispatches the next message of the queue to callback;
\* max bounds the number of deliveries in a run.
DeliverUpTo(body, max) ==
    /\ Alive
    /\ consumerPc = "consuming"
    /\ consuming
    /\ conn = "open"
    /\ Len(received) < max
    /\ received' = Append(received, body)
    /\ cur' = Len(received) + 1
    /\ consumerPc' = "callback"
    /\ UNCHANGED <<ackLog, consuming, conn, afterQueue, storeVars, uiState, uiPc>>

Deliver(body) == DeliverUpTo(body, MaxMsgs)

\* Variant of CallbackDecodeError: basic_ack sits inside the try, so a body
\* that fails to decode is not acknowledged.
CallbackDecodeErrorNoAck ==
    /\ Alive
    /\ consumerPc = "callback"
    /\ ~JsonLoads(received[cur]).ok
    /\ consumerPc' = "consuming"
    /\ UNCHANGED <<cur, received, brokerVars, afterQueue, storeVars, uiState, uiPc>>

\* callback, lines 169-173, decoding raises: the except clause prints and the
\* callback goes on to basic_ack.
CallbackDecodeError ==
    /\ Alive
    /\ consumerPc = "callback"
    /\ ~JsonLoads(received[cur]).ok
    /\ consumerPc' = "ack"
    /\ UNCHANGED <<cur, received, brokerVars, afterQueue, storeVars, uiState, uiPc>>

\* Variant of CallbackSchedule: the callback calls self._process_trade(trade)
\* itself, on the consumer thread.
CallbackProcessInline ==
    /\ Alive
    /\ consumerPc = "callback"
    /\ JsonLoads(received[cur]).ok
    /\ uiState = "running"
    /\ LET eff == ProcessTradeEffect(JsonLoads(received[cur]).value,
                                     trades_tree, last_prices, prices_tree)
       IN  /\ trades_tree' = eff.trades_tree
           /\ last_prices' = eff.last_prices
           /\ prices_tree' = eff.prices_tree
           /\ processed' = Append(processed, [tag |-> cur, outcome |-> eff.outcome])
    /\ consumerPc' = "ack"
    /\ UNCHANGED <<cur, received, brokerVars, afterQueue, uiState, uiPc>>

\* callback, lines 170-171: the document is handed to the event loop.  Called
\* from the consumer thread, root.after is carried out by the UI thread's
\* event loop, so it completes only while that loop is dispatching.
CallbackSchedule ==
    /\ Alive
    /\ consumerPc = "callback"
    /\ JsonLoads(received[cur]).ok
    /\ uiState = "running"
    /\ uiPc = "idle"
    /\ afterQueue' = After(afterQueue, [tag |-> cur, trade |-> JsonLoads(received[cur]).value])
    /\ consumerPc' = "ack"
    /\ UNCHANGED <<cur, received, brokerVars, storeVars, uiState, uiPc>>

\* callback, lines 171-173: root.after raises once the application has been
\* destroyed; the except clause prints and the callback goes on to basic_ack.
CallbackScheduleError ==
    /\ Alive
    /\ consumerPc = "callback"
    /\ JsonLoads(received[cur]).ok
    /\ uiState = "destroyed"
    /\ consumerPc' = "ack"
    /\ UNCHANGED <<cur, received, brokerVars, afterQueue, storeVars, uiState, uiPc>>

\* callback, line 174: ch.basic_ack(delivery_tag=method.delivery_tag).
CallbackAck ==
    /\ Alive
    /\ consumerPc = "ack"
    /\ conn = "open"
    /\ ackLog' = Append(ackLog, cur)
    /\ consumerPc' = "consuming"
    /\ UNCHANGED <<cur, received, consuming, conn, afterQueue, storeVars, uiState, uiPc>>

\* callback, line 174 on a channel that is no longer open: basic_ack raises,
\* the exception leaves callback and start_consuming, and the thread ends.
CallbackAckError ==
    /\ Alive
    /\ consumerPc = "ack"
    /\ conn # "open"
    /\ consumerPc' = "dead"
    /\ UNCHANGED <<cur, received, brokerVars, afterQueue, storeVars, uiState, uiPc>>

\* start_consuming(), line 182, returns: the consumer was cancelled.
StartConsumingReturns ==
    /\ Alive
    /\ consumerPc = "consuming"
    /\ ~consuming
    /\ consumerPc' = "returned"
    /\ UNCHANGED <<cur, received, brokerVars, afterQueue, storeVars, uiState, uiPc>>

\* start_consuming(), line 182, raises: the connection is gone (lost, or closed
\* under the thread by on_closing).  Nothing in _receive_trades catches it.
StartConsumingRaises ==
    /\ Alive
    /\ consumerPc = "consuming"
    /\ conn # "open"
    /\ consumerPc' = "dead"
    /\ UNCHANGED <<cur, received, brokerVars, afterQueue, storeVars, uiState, uiPc>>

\* The environment: the broker connection set up in _setup_rabbitmq fails.
ConnectionLost ==
    /\ Alive
    /\ conn = "open"
    /\ conn' = "lost"
    /\ UNCHANGED <<consumerPc, cur, received, ackLog, consuming, afterQueue, storeVars,
                   uiState, uiPc>>

(* ---------------- UI thread: handlers of the Tk event loop --------------- *)

\* The event loop runs the oldest pending after-callback: _process_trade.  An
\* exception it raises is reported by Tk and the loop goes on.
ProcessTrade ==
    /\ uiState = "running"
    /\ uiPc = "idle"
    /\ afterQueue # <<>>
    /\ LET item == Head(afterQueue)
           eff == ProcessTradeEffect(item.trade, trades_tree, last_prices, prices_tree)
       IN  /\ trades_tree' = eff.trades_tree
           /\ last_prices' = eff.last_prices
           /\ prices_tree' = eff.prices_tree
           /\ processed' = Append(processed, [tag |-> item.tag, outcome |-> eff.outcome])
    /\ afterQueue' = Tail(afterQueue)
    /\ UNCHANGED <<consumerPc, cur, received, brokerVars, uiState, uiPc>>

\* on_closing is invoked (Close button, WM_DELETE_WINDOW): lines 210-213.
OnClosing ==
    /\ uiState = "running"
    /\ uiPc = "idle"
    /\ uiPc' = "stop_consuming"
    /\ UNCHANGED <<consumerPc, cur, received, brokerVars, afterQueue, storeVars, uiState>>

\* line 214, channel.stop_consuming() cancels the consumer.
StopConsumingOk ==
    /\ uiPc = "stop_consuming"
    /\ consuming' = FALSE
    /\ uiPc' = "close"
    /\ UNCHANGED <<consumerPc, cur, received, ackLog, conn, afterQueue, storeVars, uiState>>

\* line 214 raises (the channel is not open, or the consumer thread is using
\* the same connection at that moment); line 216 swallows it and line 215 is
\* skipped.
StopConsumingRaises ==
    /\ uiPc = "stop_consuming"
    /\ \/ conn # "open"
       \/ consumerPc \in {"consuming", "callback", "ack"}
    /\ uiPc' = "destroy"
    /\ UNCHANGED <<consumerPc, cur, received, brokerVars, afterQueue, storeVars, uiState>>

\* line 215, connection.close().
ConnectionCloseOk ==
    /\ uiPc = "close"
    /\ conn = "open"
    /\ conn' = "closed"
    /\ uiPc' = "destroy"
    /\ UNCHANGED <<consumerPc, cur, received, ackLog, consuming, afterQueue, storeVars,
                   uiState>>

\* line 215 raises (the connection is already gone, or the consumer thread is
\* using it at that moment); line 216 swallows it.
ConnectionCloseRaises ==
    /\ uiPc = "close"
    /\ \/ conn # "open"
       \/ consumerPc \in {"consuming", "callback", "ack"}
    /\ uiPc' = "destroy"
    /\ UNCHANGED <<consumerPc, cur, received, brokerVars, afterQueue, storeVars, uiState>>

\* line 218, root.destroy(): the window and its event loop are gone; pending
\* after-callbacks never run.
Destroy ==
    /\ uiPc = "destroy"
    /\ uiState' = "destroyed"
    /\ uiPc' = "idle"
    /\ UNCHANGED <<consumerPc, cur, received, brokerVars, afterQueue, storeVars>>

\* root.mainloop() (line 226) returns after destroy and the script ends: the
\* interpreter exits and the daemon thread stops wherever it is.
ProcessExit ==
    /\ uiState = "destroyed"
    /\ uiState' = "exited"
    /\ UNCHANGED <<consumerPc, cur, received, brokerVars, afterQueue, storeVars, uiPc>>

-----------------------------------------------------------------------------
Next ==
    \/ \E body \in Bodies : Deliver(body)
    \/ CallbackDecodeError
    \/ CallbackSchedule
    \/ CallbackScheduleError
    \/ CallbackAck
    \/ CallbackAckError
    \/ StartConsumingReturns
    \/ StartConsumingRaises
    \/ ConnectionLost
    \/ ProcessTrade
    \/ OnClosing
    \/ StopConsumingOk
    \/ StopConsumingRaises
    \/ ConnectionCloseOk
    \/ ConnectionCloseRaises
    \/ Destroy
    \/ ProcessExit

Spec == Init /\ [][Next]_vars

-----------------------------------------------------------------------------
(* A second specification for the decoding of partial documents: the same   *)
(* program, fed with every document that carries a subset of the five keys  *)
(* of one trade (besides the bodies above).                                 *)

\* Number of messages delivered in a run of SpecWire.
MaxWireMsgs == 1

FullTrade == Trade(JStr("AAPL"), JInt(100), JInt(10), JStr("B1"), JStr("S1"))

SubsetBodies == { ObjBody([k \in S |-> FullTrade[k]]) : S \in SUBSET Keys }

WireBodies == Bodies \cup SubsetBodies

DeliverWire(body) == DeliverUpTo(body, MaxWireMsgs)

NextWire ==
    \/ \E body \in WireBodies : DeliverWire(body)
    \/ CallbackDecodeError
    \/ CallbackSchedule
    \/ CallbackScheduleError
    \/ CallbackAck
    \/ CallbackAckError
    \/ StartConsumingReturns
    \/ StartConsumingRaises
    \/ ConnectionLost
    \/ ProcessTrade
    \/ OnClosing
    \/ StopConsumingOk
    \/ StopConsumingRaises
    \/ ConnectionCloseOk
    \/ ConnectionCloseRaises
    \/ Destroy
    \/ ProcessExit

SpecWire == Init /\ [][NextWire]_vars

-----------------------------------------------------------------------------
(* Scheduling.  The event loop keeps running queued callbacks, the consumer *)
(* thread keeps being scheduled while it is inside callback, and a handler  *)
(* that has started (on_closing) runs to its end.  Nothing obliges the      *)
(* broker to deliver, the user to close the window, the connection to fail  *)
(* or the interpreter to exit.                                              *)

CallbackStep ==
    \/ CallbackDecodeError
    \/ CallbackSchedule
    \/ CallbackScheduleError
    \/ CallbackAck
    \/ CallbackAckError

OnClosingStep ==
    \/ StopConsumingOk
    \/ StopConsumingRaises
    \/ ConnectionCloseOk
    \/ ConnectionCloseRaises
    \/ Destroy

FairSpec ==
    /\ Spec
    /\ WF_vars(ProcessTrade)
    /\ WF_vars(CallbackStep)
    /\ WF_vars(OnClosingStep)

-----------------------------------------------------------------------------
(* Vocabulary of the properties.                                            *)

\* The body parses as the structured object of the wire format.
IsObjectBody(body) == body.syntax = "json" /\ body.kind = "object"

\* The fields _process_trade reads from the message with this tag.
ValuesOf(tag) == TradeValues([kind |-> "object", fields |-> received[tag].fields])
SymbolOf(tag) == ValuesOf(tag)[1]
PriceOf(tag) == ValuesOf(tag)[2]

\* The ledger row that stands for the message with this tag.
RowOf(tag) == [i \in 1..5 |-> TkStr(ValuesOf(tag)[i])]

\* Runs of _process_trade that inserted a row, in order.
Inserted == SelectSeq(processed, LAMBDA e : e.outcome # "raised")

WasProcessed(tag) == \E i \in 1..Len(processed) : processed[i].tag = tag
WasApplied(tag) ==
    \E i \in 1..Len(processed) : processed[i].tag = tag /\ processed[i].outcome = "applied"

IsPrefix(s, t) == Len(s) <= Len(t) /\ SubSeq(t, 1, Len(s)) = s

-----------------------------------------------------------------------------
\* C1: after any sequence of trades applied by _process_trade, last_prices[S]
\* is the price of the most recently applied trade for S, in every state until
\* a later trade for S is applied.
LastPriceIsMostRecent ==
    \A i \in 1..Len(processed) :
        (/\ processed[i].outcome = "applied"
         /\ ~\E j \in (i+1)..Len(processed) :
                /\ processed[j].outcome = "applied"
                /\ PyEq(SymbolOf(processed[j].tag), SymbolOf(processed[i].tag)))
        => /\ DictHas(last_prices, SymbolOf(processed[i].tag))
           /\ DictGet(last_prices, SymbolOf(processed[i].tag)) = PriceOf(processed[i].tag)

\* Two trades for one symbol at different prices have been applied, and the
\* map holds the second price.
LastPriceOverwritten ==
    /\ Len(processed) = 2
    /\ processed[1].outcome = "applied"
    /\ processed[2].outcome = "applied"
    /\ SymbolOf(processed[1].tag) = SymbolOf(processed[2].tag)
    /\ PriceOf(processed[1].tag) # PriceOf(processed[2].tag)
    /\ DictGet(last_prices, SymbolOf(processed[2].tag)) = PriceOf(processed[2].tag)

\* C2: no observable state has a ledger row without a price-map entry for its
\* symbol, nor a price-map entry without a ledger row for its symbol.
NoHalfAppliedTrade ==
    /\ \A i \in 1..Len(trades_tree) :
          \E j \in 1..Len(last_prices) : TkStr(last_prices[j].key) = trades_tree[i][1]
    /\ \A j \in 1..Len(last_prices) :
          \E i \in 1..Len(trades_tree) : TkStr(last_prices[j].key) = trades_tree[i][1]

\* C3: a well-formed message is acknowledged only after _process_trade has
\* applied it.
AckOnlyAfterApplied ==
    \A tag \in acked : IsObjectBody(received[tag]) => WasApplied(tag)

\* C4: a message whose body does not parse as an object is dropped: neither
\* the callback's handling of it nor the _process_trade run on it changes the
\* ledger or last_prices, and the callback goes on to the acknowledgement and
\* from there back to consuming.
MalformedDropped ==
    [][ /\ (/\ consumerPc = "callback"
            /\ ~IsObjectBody(received[cur])
            /\ consumerPc' # consumerPc)
           => (/\ consumerPc' = "ack"
               /\ trades_tree' = trades_tree
               /\ last_prices' = last_prices)
        /\ (/\ consumerPc = "ack"
            /\ ~IsObjectBody(received[cur])
            /\ conn = "open"
            /\ consumerPc' # consumerPc)
           => (/\ consumerPc' = "consuming"
               /\ trades_tree' = trades_tree
               /\ last_prices' = last_prices)
        /\ (/\ processed' # processed
            /\ ~IsObjectBody(received[Head(afterQueue).tag]))
           => (/\ trades_tree' = trades_tree
               /\ last_prices' = last_prices
               /\ afterQueue' = Tail(afterQueue))
      ]_vars

\* An undecodable message and a JSON array have both been received, dropped and
\* acknowledged, the store being as it was.
MalformedWereDropped ==
    /\ Len(received) = 2
    /\ received[1].syntax # "json"
    /\ received[2].kind = "array"
    /\ acked = {1, 2}
    /\ processed = <<[tag |-> 2, outcome |-> "raised"]>>
    /\ trades_tree = <<>>
    /\ last_prices = <<>>
    /\ consumerPc = "consuming"

\* C5: the ledger holds exactly one row per trade _process_trade inserted, in
\* application order: row i is the i-th trade applied, duplicates included.
LedgerIsAppliedSequence ==
    /\ Len(trades_tree) = Len(Inserted)
    /\ \A i \in 1..Len(trades_tree) : trades_tree[i] = RowOf(Inserted[i].tag)

\* The same trade applied twice makes two rows; two different trades keep
\* their order.
DuplicateTradeTwoRows ==
    /\ Len(processed) = 2
    /\ processed[1].outcome = "applied"
    /\ processed[2].outcome = "applied"
    /\ received[1] = received[2]
    /\ Len(trades_tree) = 2

\* C6: while the window is up, the rows of the ledger followed by the trades
\* still pending in the event loop are exactly the well-formed messages the
\* callback has handed over, in the order received; at any time the ledger is
\* a prefix of the well-formed messages in the order received.
HandedOver ==
    SelectSeq([i \in 1..Len(received) |-> i],
              LAMBDA tag : IsObjectBody(received[tag])
                           /\ ~(consumerPc = "callback" /\ tag = cur))

PendingTags ==
    LET objs == SelectSeq(afterQueue, LAMBDA e : IsObjectBody(received[e.tag]))
    IN  [i \in 1..Len(objs) |-> objs[i].tag]

InsertedTags == [i \in 1..Len(Inserted) |-> Inserted[i].tag]

DeliveredInOrder ==
    /\ IsPrefix(InsertedTags, HandedOver)
    /\ uiState = "running" => InsertedTags \o PendingTags = HandedOver
    /\ Len(trades_tree) = Len(InsertedTags)
    /\ \A i \in 1..Len(trades_tree) : trades_tree[i] = RowOf(HandedOver[i])

\* Two different well-formed messages both reached the ledger.
TwoTradesInReceivedOrder ==
    /\ Len(received) = 2
    /\ IsObjectBody(received[1])
    /\ IsObjectBody(received[2])
    /\ RowOf(1) # RowOf(2)
    /\ trades_tree = <<RowOf(1), RowOf(2)>>

\* C7: once shutdown has completed, every acknowledged well-formed message has
\* been run through _process_trade.
NoAckedTradeLostAtShutdown ==
    uiState \in {"destroyed", "exited"}
    => \A tag \in acked : IsObjectBody(received[tag]) => WasProcessed(tag)

\* C8: every message that parses as an object is applied in full by
\* _process_trade, whatever its fields hold.
ObjectAlwaysAppliedInFull ==
    \A i \in 1..Len(processed) :
        IsObjectBody(received[processed[i].tag]) => processed[i].outcome = "applied"

\* C9: the consumer thread is never dead from a broker failure while the UI
\* main loop keeps running.  (The source has no statement that tells the UI
\* thread: the only states in which the owner is not left running unaware are
\* those in which the window is already being closed.)
ChannelFailureSurfaced ==
    ~(conn = "lost" /\ consumerPc = "dead" /\ uiState = "running" /\ uiPc = "idle")

\* C10: the ledger is append-only: every step leaves the rows it found, in
\* place, as a prefix of the ledger.
LedgerAppendOnly ==
    [][IsPrefix(trades_tree, trades_tree')]_vars

\* The ledger holds a row and later operations have run on the store: another
\* trade with its refresh of the prices table, and a dropped message.
LedgerGrewPastRefresh ==
    /\ Len(processed) = 2
    /\ processed[1].outcome = "applied"
    /\ processed[2].outcome = "applied"
    /\ Len(trades_tree) = 2
    /\ Len(prices_tree) >= 1

-----------------------------------------------------------------------------
\* A body of the wire format: an object whose present keys carry values of
\* the declared types (strings for symbol, buyer and seller, numbers for
\* price and quantity).
ConformsToWireFormat(body) ==
    /\ IsObjectBody(body)
    /\ \A k \in DOMAIN body.fields :
          IF k \in {"price", "quantity"} THEN IsNum(body.fields[k])
          ELSE body.fields[k].t = "str"

\* The row the documented defaults give for a body.
KeyAt == <<"symbol", "price", "quantity", "buyer", "seller">>
DefaultText == <<"???", "0.0", "0", "???", "???">>
ExpectedRow(body) ==
    [p \in 1..5 |-> IF KeyAt[p] \in DOMAIN body.fields
                    THEN TkStr(body.fields[KeyAt[p]])
                    ELSE DefaultText[p]]
ExpectedSymbol(body) ==
    IF "symbol" \in DOMAIN body.fields THEN body.fields["symbol"] ELSE JStr("???")
ExpectedPrice(body) ==
    IF "price" \in DOMAIN body.fields THEN body.fields["price"] ELSE JFloat(0)

\* Index in the ledger of the row inserted by the i-th run of _process_trade.
RowIndex(i) == Cardinality({j \in 1..i : processed[j].outcome # "raised"})

\* C11: a message of the wire format with any subset of its keys absent is
\* applied: its ledger row carries the supplied value of every present key
\* and the default ("???", 0.0, 0, "???", "???") of every absent key, and
\* last_prices maps its symbol (or "???") to a price, which is the message's
\* price (or 0.0) as long as it is the last trade processed.
AbsentKeysTakeDefaults ==
    \A i \in 1..Len(processed) :
        LET body == received[processed[i].tag]
        IN  ConformsToWireFormat(body)
            => /\ processed[i].outcome = "applied"
               /\ trades_tree[RowIndex(i)] = ExpectedRow(body)
               /\ DictHas(last_prices, ExpectedSymbol(body))
               /\ i = Len(processed)
                  => DictGet(last_prices, ExpectedSymbol(body)) = ExpectedPrice(body)

\* A message with only symbol and quantity has been applied with the defaults
\* of price, buyer and seller.
PartialMessageApplied ==
    /\ Len(received) = 1
    /\ DOMAIN received[1].fields = {"symbol", "quantity"}
    /\ processed = <<[tag |-> 1, outcome |-> "applied"]>>
    /\ trades_tree = <<<<"AAPL", "0.0", "10", "???", "???">>>>
    /\ last_prices = <<[key |-> JStr("AAPL"), val |-> JFloat(0)]>>

\* C12: the ledger has at least as many rows as last_prices has symbols (the
\* keys of last_prices being distinct), hence at least as many as have a
\* non-default price, and every symbol of last_prices is the symbol of a row.
EveryPriceHasLedgerRow ==
    /\ \A j, k \in 1..Len(last_prices) :
          j # k => ~PyEq(last_prices[j].key, last_prices[k].key)
    /\ Len(trades_tree) >= Len(last_prices)
    /\ Len(trades_tree) >=
          Cardinality({j \in 1..Len(last_prices) : last_prices[j].val # JFloat(0)})
    /\ \A j \in 1..Len(last_prices) :
          \E i \in 1..Len(trades_tree) : trades_tree[i][1] = TkStr(last_prices[j].key)

\* Two symbols are priced, each with its row in the ledger.
TwoSymbolsPriced ==
    /\ Len(last_prices) = 2
    /\ Len(trades_tree) = 2
    /\ trades_tree[1][1] # trades_tree[2][1]

\* C13: the store has a single writer: a step that changes the ledger,
\* last_prices or the prices table is a run of a handler by the idle event
\* loop of the UI thread, and the consumer thread does not move in it (so no
\* step of callback writes the store).
SingleWriter ==
    [][ (\/ trades_tree' # trades_tree
         \/ last_prices' # last_prices
         \/ prices_tree' # prices_tree)
        => (/\ uiState = "running"
            /\ uiPc = "idle"
            /\ uiPc' = "idle"
            /\ afterQueue # <<>>
            /\ afterQueue' = Tail(afterQueue)
            /\ consumerPc' = consumerPc
            /\ cur' = cur
            /\ received' = received
            /\ ackLog' = ackLog)
      ]_vars

\* The UI thread has applied the first trade while the consumer thread is
\* inside callback with the second message.
WriteWhileCallbackRuns ==
    /\ consumerPc = "callback"
    /\ cur = 2
    /\ processed = <<[tag |-> 1, outcome |-> "applied"]>>
    /\ Len(trades_tree) = 1

\* C14: when root.destroy() has run, the consumer has been stopped and the
\* connection is no longer open.
StoppedAndClosedBeforeDestroy ==
    uiState \in {"destroyed", "exited"} => (~consuming /\ conn # "open")

\* C15: the prices table shows exactly last_prices: one row per symbol with
\* its current price, in the dict's order, and no other row.
PricesTableShowsLastPrices ==
    /\ Len(prices_tree) = Len(last_prices)
    /\ \A j \in 1..Len(last_prices) :
          /\ Cardinality({i \in 1..Len(prices_tree) :
                            prices_tree[i][1] = TkStr(last_prices[j].key)}) = 1
          /\ prices_tree[j] = <<TkStr(last_prices[j].key), TkStr(last_prices[j].val)>>
    /\ \A i \in 1..Len(prices_tree) :
          \E j \in 1..Len(last_prices) : prices_tree[i][1] = TkStr(last_prices[j].key)

\* A symbol was repriced: the table has its one row, with the new price.
RepricedRowReplaced ==
    /\ Len(processed) = 2
    /\ processed[1].outcome = "applied"
    /\ processed[2].outcome = "applied"
    /\ SymbolOf(processed[1].tag) = SymbolOf(processed[2].tag)
    /\ TkStr(PriceOf(processed[1].tag)) # TkStr(PriceOf(processed[2].tag))
    /\ prices_tree = <<<<TkStr(SymbolOf(processed[2].tag)), TkStr(PriceOf(processed[2].tag))>>>>

\* C16 as stated: once callback is over for a message, the message has been
\* acknowledged; no delivered message is left unacknowledged.
EveryDeliveryAcked ==
    consumerPc \in {"consuming", "returned", "dead"} => acked = 1..Len(received)

\* C16 as amended: basic_ack is called with each message's own tag, once and in
\* delivery order, whatever the try block did; a delivered message is without
\* acknowledgement only while its callback is still running, or when basic_ack
\* raised because the connection was no longer open, which ends the thread.
AckedOnceUnlessChannelGone ==
    /\ \A i \in 1..Len(ackLog) : ackLog[i] = i
    /\ Len(ackLog) <= Len(received)
    /\ Len(ackLog) >= Len(received) - 1
    /\ Len(ackLog) < Len(received)
       => /\ cur = Len(received)
          /\ \/ consumerPc \in {"callback", "ack"}
             \/ consumerPc = "dead" /\ conn # "open"

\* A body that failed to decode and a document that could not be scheduled
\* (the window was gone) have both been acknowledged.
AckedAfterBothFailures ==
    /\ ackLog = <<1, 2>>
    /\ received[1].syntax # "json"
    /\ IsObjectBody(received[2])
    /\ uiState = "destroyed"
    /\ afterQueue = <<>>
    /\ processed = <<>>

\* C17: the UI thread never runs channel.stop_consuming() or
\* connection.close() while the consumer thread is inside start_consuming()
\* (waiting, in callback or in basic_ack) on the same channel.
ChannelUsedByOneThread ==
    [][ (uiPc \in {"stop_consuming", "close"} /\ uiPc' # uiPc)
        => consumerPc \notin {"consuming", "callback", "ack"} ]_vars

\* C18: under FairSpec, every message of the wire format that the callback
\* has handed to the event loop is eventually applied.
QueuedTradeEventuallyApplied ==
    \A t \in 1..MaxMsgs :
        (\E k \in 1..Len(afterQueue) :
             afterQueue[k].tag = t /\ ConformsToWireFormat(received[t]))
        ~> WasApplied(t)

\* C19: a run of _process_trade leaves every entry of last_prices for another
\* symbol as it was and where it was, removes no entry, and leaves the rows
\* the ledger had as they were.
OnlyOwnEntryChanges ==
    [][ processed' # processed
        => LET sym == SymbolOf(Head(afterQueue).tag)
           IN  /\ Len(last_prices') >= Len(last_prices)
               /\ \A j \in 1..Len(last_prices) :
                     /\ last_prices'[j].key = last_prices[j].key
                     /\ ~PyEq(last_prices[j].key, sym)
                        => last_prices'[j].val = last_prices[j].val
               /\ IsPrefix(trades_tree, trades_tree')
      ]_vars

\* A trade for a second symbol was applied and the first symbol kept its
\* entry and price.
OtherSymbolKept ==
    /\ Len(processed) = 2
    /\ processed[1].outcome = "applied"
    /\ processed[2].outcome = "applied"
    /\ Len(last_prices) = 2
    /\ last_prices[1] = [key |-> SymbolOf(processed[1].tag), val |-> PriceOf(processed[1].tag)]

=============================================================================
